---- MODULE Spec2Model ----
(***************************************************************************)
(* Model of src/dashboard/services/websocket-service.js: one instance of   *)
(* createWebSocketService.  The closure variables of the service are the   *)
(* VARIABLES; the browser's WebSocket objects, the timers and the promises *)
(* the service creates are the environment part of the state.  Every       *)
(* function of the service is an operator from machine state to machine    *)
(* state (a record with one field per variable), so that a function that   *)
(* calls another one (connect -> disconnect, onclose -> scheduleReconnect) *)
(* is the composition of the two; an action commits the result.            *)
(***************************************************************************)
EXTENDS Integers, Sequences, FiniteSets, TLC

\* ---------------------------------------------------------------- bounds
MaxSockets == 3        \* Spec, SpecRetry, SpecTeardown: WebSocket objects created in one behaviour
MaxCalls == 2          \* Spec, SpecRetry, SpecSettle: connect()/disconnect() calls made by the caller
MaxLoopSockets == 5    \* SpecLoop: WebSocket objects created in one behaviour
MaxRequests == 1       \* SpecReq, SpecSettle (SpecArgs: one more): requests alive at once (unsettled, or with a timer or handler left)
MaxRegistrations == 1  \* SpecReq: handlers the caller has registered with onMessage at once
MaxPending == 3        \* SpecQueue: getClients requests alive at once
MaxListeners == 2      \* SpecEvents: event listeners registered at once
MaxTeardownCalls == 3  \* SpecTeardown: connect()/disconnect() calls made by the caller
MaxBackoffSockets == 17 \* SpecBackoff: WebSocket objects created in one behaviour
MaxRouterHandlers == 2 \* SpecRouter: handlers the caller has registered with onMessage at once

\* ------------------------------------------------------ program constants
MAX_RECONNECT_ATTEMPTS == 5
MAX_RECONNECT_DELAY == 30000
INITIAL_RECONNECT_DELAY == 1000
NORMAL_CLOSURE == 1000

\* reconnectDelay is a double; every value it takes is a multiple of 1/64 ms,
\* so it is kept as an integer number of 1/64 ms.
DelayScale == 2 ^ 6
Ms(n) == n * DelayScale

Min(a, b) == IF a <= b THEN a ELSE b

Max(a, b) == IF a >= b THEN a ELSE b

\* URLs are character sequences, so that startsWith is computed.
WsA == <<"w", "s", ":", "/", "/", "a">>
WssB == <<"w", "s", "s", ":", "/", "/", "b">>
HttpX == <<"h", "t", "t", "p", ":", "/", "/", "x">>
WsOneSlash == <<"w", "s", ":", "/", "a">>
Urls == {WsA, HttpX, WsOneSlash}

StartsWith(s, p) == Len(s) >= Len(p) /\ SubSeq(s, 1, Len(p)) = p

ValidUrl(u) ==
  StartsWith(u, <<"w", "s", ":", "/", "/">>) \/ StartsWith(u, <<"w", "s", "s", ":", "/", "/">>)

\* close codes the browser reports: normal closure, or an abnormal one
ABNORMAL_CLOSURE == NORMAL_CLOSURE + 6
CloseCodes == {NORMAL_CLOSURE, ABNORMAL_CLOSURE}

EventKinds ==
  {"connect", "disconnect", "reconnect", "message", "error_invalid_url", "error_timeout",
   "error_socket", "error_max_reconnect_attempts", "error_send_error", "error_parse_error",
   "error_handler_error"}

\* the five request operations and the reply type each one awaits
Ops == {"getClients", "getPresets", "updateDisplay", "savePreset", "loadPreset"}

ReplyType(op) ==
  CASE op = "getClients" -> "client_list"
    [] op = "getPresets" -> "preset_list"
    [] op = "updateDisplay" -> "display_updated"
    [] op = "savePreset" -> "preset_saved"
    [] op = "loadPreset" -> "preset_loaded"

MsgTypes == {ReplyType(op) : op \in Ops}

\* the types dashboard.jsx registers handlers for with onMessage
CallerTypes == {"client_list", "preset_list"}

\* the callbacks the caller registers with onMessage; callback 2 throws
Callbacks == {1, 2}
Throws(h) == h = 2

\* a listener that unsubscribes itself when it is invoked: callback 3 calls
\* removeEventListener(event, itself)
OnceCallback == 3
Unsubscribes(cb) == cb = OnceCallback

\* the events of the service; every error kind is an event named error
EventNames == {"connect", "disconnect", "error", "reconnect", "message"}
EventName(kind) == IF kind \in EventNames THEN kind ELSE "error"

\* the event kinds whose triggerEvent calls are counted over the whole behaviour;
\* the events of one step are all in last.events
Counted == {"error_max_reconnect_attempts"}

VARIABLES
  socket,              \* 0 (null) or the id of the current WebSocket object
  isConnected,
  reconnectTimeout,    \* 0 (null) or the id of the last reconnection timer set
  reconnectDelay,
  url,
  connectionAttempts,
  sockets,             \* the WebSocket objects created so far, with the closure of their connect call
  pendingReconnect,    \* reconnection timers that are set and neither fired nor cleared
  emitted,             \* number of triggerEvent calls so far, for the kinds in Counted
  calls,               \* number of calls made by the caller
  callerDisconnected,  \* the caller's last call was disconnect()
  requestedUrl,        \* the URL of the caller's last connect() call with a valid URL
  superseded,          \* timers that were pending when the caller called connect() with a valid URL, and still are
  failedRun,           \* transports closed without ever opening since the last open event
  messageHandlers,     \* message type -> the handlers registered for it, in order
  requests,            \* the closures of the request calls that registered a handler, by slot
  eventListeners,      \* event name -> the listeners registered for it, in order
  last,                \* what the last step did (observation of the step)
  peer                 \* a second service instance (dashboard.jsx creates two), as one record

\* the bindings of the first instance's closure
service ==
  <<socket, isConnected, reconnectTimeout, reconnectDelay, url, connectionAttempts, sockets,
    pendingReconnect, emitted, calls, callerDisconnected, requestedUrl, superseded, failedRun,
    messageHandlers, requests, eventListeners, last>>

vars == <<service, peer>>

\* the machine state as one record
Cur ==
  [socket |-> socket, isConnected |-> isConnected, reconnectTimeout |-> reconnectTimeout,
   reconnectDelay |-> reconnectDelay, url |-> url, connectionAttempts |-> connectionAttempts,
   sockets |-> sockets, pendingReconnect |-> pendingReconnect, emitted |-> emitted,
   calls |-> calls, callerDisconnected |-> callerDisconnected, requestedUrl |-> requestedUrl,
   superseded |-> superseded,
   failedRun |-> failedRun, messageHandlers |-> messageHandlers, requests |-> requests,
   eventListeners |-> eventListeners, last |-> last]

NoOptions == [noReconnect |-> FALSE, unlimitedReconnect |-> FALSE]

\* the options the caller passes: none, noReconnect (as dashboard.jsx does for
\* its second service) or unlimitedReconnect
CallerOptions ==
  {NoOptions, [NoOptions EXCEPT !.noReconnect = TRUE],
   [NoOptions EXCEPT !.unlimitedReconnect = TRUE]}

\* a WebSocket object and the closure of the connect call that created it.
\* waived: the caller's call this attempt descends from set unlimitedReconnect.
NewSocket(options, viaTimer, waived) ==
  [readyState |-> "CONNECTING", noReconnect |-> options.noReconnect,
   unlimitedReconnect |-> options.unlimitedReconnect, timeoutArmed |-> TRUE,
   promise |-> "pending", viaTimer |-> viaTimer, wasOpen |-> FALSE, waived |-> waived,
   closeCode |-> 0, schedDelay |-> 0, schedN |-> 0]

\* a closed object whose timers are gone takes no further part: no handler of
\* it can run and nothing reads its closure
Closed ==
  [readyState |-> "CLOSED", noReconnect |-> FALSE, unlimitedReconnect |-> FALSE,
   timeoutArmed |-> FALSE, promise |-> "settled_or_abandoned", viaTimer |-> FALSE,
   wasOpen |-> FALSE, waived |-> FALSE, closeCode |-> 0, schedDelay |-> 0, schedN |-> 0]

\* a handler in the table: the one-shot handler of request id, or callback id
OneShot(r) == [once |-> TRUE, id |-> r]
Persistent(h) == [once |-> FALSE, id |-> h]

Registered(m, type, h) == \E i \in DOMAIN m.messageHandlers[type] : m.messageHandlers[type][i] = h

\* a request slot that holds no request.  A settled request whose timer is gone
\* and whose handler is out of the table takes no further part: its slot is
\* free again.
Free == [op |-> "none", type |-> "none", state |-> "free", timer |-> FALSE, rejectedBy |-> "none"]

Forget(m) ==
  [m EXCEPT !.sockets =
     [s \in DOMAIN m.sockets |->
        IF m.sockets[s].readyState = "CLOSED" /\ s \notin m.pendingReconnect
        THEN Closed
        ELSE m.sockets[s]],
            !.superseded = @ \cap m.pendingReconnect,
            !.requests =
     [r \in DOMAIN m.requests |->
        IF /\ m.requests[r].state # "pending"
           /\ ~m.requests[r].timer
           /\ \A type \in MsgTypes : ~Registered(m, type, OneShot(r))
        THEN Free
        ELSE m.requests[r]]]

Step(kind, s) ==
  [kind |-> kind, sock |-> s, code |-> 0, wasOpen |-> FALSE, errored |-> FALSE,
   noReconnect |-> FALSE, waived |-> FALSE, scheduled |-> FALSE, events |-> <<>>,
   promise |-> "none", stale |-> FALSE, op |-> "none", req |-> 0, outcome |-> "none",
   sent |-> 0, snapshot |-> <<>>, invoked |-> <<>>, arg |-> <<>>, resolved |-> <<>>,
   field |-> "none", delivered |-> <<>>, caught |-> 0, uncaught |-> FALSE, cleared |-> 0]

Commit(n) ==
  \E m \in {Forget(n)} :
     /\ socket' = m.socket
     /\ isConnected' = m.isConnected
     /\ reconnectTimeout' = m.reconnectTimeout
     /\ reconnectDelay' = m.reconnectDelay
     /\ url' = m.url
     /\ connectionAttempts' = m.connectionAttempts
     /\ sockets' = m.sockets
     /\ pendingReconnect' = m.pendingReconnect
     /\ emitted' = m.emitted
     /\ calls' = m.calls
     /\ callerDisconnected' = m.callerDisconnected
     /\ requestedUrl' = m.requestedUrl
     /\ superseded' = m.superseded
     /\ failedRun' = m.failedRun
     /\ messageHandlers' = m.messageHandlers
     /\ requests' = m.requests
     /\ eventListeners' = m.eventListeners
     /\ last' = m.last
     /\ peer' = peer

\* the state of an instance when createWebSocketService returns
NewService ==
  [socket |-> 0, isConnected |-> FALSE, reconnectTimeout |-> 0,
   reconnectDelay |-> Ms(INITIAL_RECONNECT_DELAY), url |-> <<>>, connectionAttempts |-> 0,
   sockets |-> <<>>, pendingReconnect |-> {}, emitted |-> [k \in Counted |-> 0],
   calls |-> 0, callerDisconnected |-> FALSE, requestedUrl |-> <<>>, superseded |-> {},
   failedRun |-> 0, messageHandlers |-> [type \in MsgTypes |-> <<>>],
   requests |-> [r \in 1..Max(MaxRequests, MaxPending) |-> Free],
   eventListeners |-> [event \in EventNames |-> <<>>], last |-> Step("init", 0)]

Init ==
  /\ socket = 0
  /\ isConnected = FALSE
  /\ reconnectTimeout = 0
  /\ reconnectDelay = Ms(INITIAL_RECONNECT_DELAY)
  /\ url = <<>>
  /\ connectionAttempts = 0
  /\ sockets = <<>>
  /\ pendingReconnect = {}
  /\ emitted = [k \in Counted |-> 0]
  /\ calls = 0
  /\ callerDisconnected = FALSE
  /\ requestedUrl = <<>>
  /\ superseded = {}
  /\ failedRun = 0
  /\ messageHandlers = [type \in MsgTypes |-> <<>>]
  /\ requests = [r \in 1..Max(MaxRequests, MaxPending) |-> Free]
  /\ eventListeners = [event \in EventNames |-> <<>>]
  /\ last = Step("init", 0)
  /\ peer = NewService

\* ------------------------------------------------------- event dispatcher
addEventListener(m, event, cb) ==
  IF event \in EventNames THEN [m EXCEPT !.eventListeners[event] = Append(@, cb)] ELSE m

removeEventListener(m, event, cb) ==
  IF event \in EventNames
  THEN LET i == IF \E j \in DOMAIN m.eventListeners[event] : m.eventListeners[event][j] = cb
                THEN CHOOSE j \in DOMAIN m.eventListeners[event] :
                       /\ m.eventListeners[event][j] = cb
                       /\ \A k \in 1..(j - 1) : m.eventListeners[event][k] # cb
                ELSE 0
       IN IF i # 0
          THEN [m EXCEPT !.eventListeners[event] =
                  SubSeq(@, 1, i - 1) \o SubSeq(@, i + 1, Len(@))]
          ELSE m
  ELSE m

\* a forEach whose callback has no try/catch: the first listener that throws
\* ends the iteration and the exception reaches the code that triggered the event
RECURSIVE forEachListener_NoCatch(_, _, _)
forEachListener_NoCatch(m, event, k) ==
  IF k > Len(m.eventListeners[event])
  THEN m
  ELSE LET cb == m.eventListeners[event][k]
           m1 == [m EXCEPT !.last.delivered = Append(@, <<event, cb>>)]
       IN IF Throws(cb)
          THEN [m1 EXCEPT !.last.uncaught = TRUE]
          ELSE forEachListener_NoCatch(m1, event, k + 1)

triggerEvent_NoCatch(m, kind) ==
  forEachListener_NoCatch(
    [m EXCEPT !.last.events = Append(@, kind),
              !.emitted = [k \in Counted |-> IF k = kind THEN @[k] + 1 ELSE @[k]]],
    EventName(kind), 1)

\* the body of triggerEvent's forEach callback: callback(data) in try/catch
callListener(m, event, cb) ==
  LET m1 == [m EXCEPT !.last.delivered = Append(@, <<event, cb>>),
                      !.last.caught = IF Throws(cb) THEN @ + 1 ELSE @]
  IN IF Unsubscribes(cb) THEN removeEventListener(m1, event, cb) ELSE m1

RECURSIVE forEachListener(_, _, _)
forEachListener(m, event, k) ==
  IF k > Len(m.eventListeners[event])
  THEN m
  ELSE forEachListener(callListener(m, event, m.eventListeners[event][k]), event, k + 1)

triggerEvent(m, kind) ==
  forEachListener(
    [m EXCEPT !.last.events = Append(@, kind),
              !.emitted = [k \in Counted |-> IF k = kind THEN @[k] + 1 ELSE @[k]]],
    EventName(kind), 1)

\* --------------------------------------------------------------- lifecycle
\* socket.close() of the browser: an OPEN or CONNECTING object starts closing
closeTransport(m, s) == [m EXCEPT !.sockets[s].readyState = "CLOSING"]

\* a disconnect that announces itself with a disconnect event
disconnect_EmitsEvent(m) ==
  LET c == IF m.socket # 0 /\ m.sockets[m.socket].readyState \in {"OPEN", "CONNECTING"}
           THEN closeTransport(m, m.socket)
           ELSE m
  IN triggerEvent([c EXCEPT !.socket = 0, !.isConnected = FALSE, !.reconnectTimeout = 0,
                            !.pendingReconnect = @ \ {m.reconnectTimeout}],
                  "disconnect")

\* disconnect(); closeThrows tells whether socket.close(), if called, throws.
\* A close() that throws leaves the transport as it was.
disconnectWith(m, closeThrows) ==
  LET m1 == IF m.socket # 0
            THEN LET c == IF m.sockets[m.socket].readyState \in {"OPEN", "CONNECTING"}
                          THEN IF closeThrows
                               THEN triggerEvent(m, "error_disconnect_error")
                               ELSE closeTransport(m, m.socket)
                          ELSE m
                 IN [c EXCEPT !.socket = 0, !.isConnected = FALSE]
            ELSE m
  IN IF m1.reconnectTimeout # 0
     THEN [m1 EXCEPT !.pendingReconnect = @ \ {m1.reconnectTimeout}, !.reconnectTimeout = 0]
     ELSE m1

disconnect(m) == disconnectWith(m, FALSE)

\* a backoff without the ceiling
backoff_NoCap(m) == [m EXCEPT !.reconnectDelay = (@ * 3) \div 2]

\* the .catch callback of scheduleReconnect's connect(url)
backoff(m) ==
  [m EXCEPT !.reconnectDelay = Min((@ * 3) \div 2, Ms(MAX_RECONNECT_DELAY))]

\* reject() of the connect call that created transport s
rejectConnect(m, s) ==
  IF m.sockets[s].promise = "pending"
  THEN LET r == [m EXCEPT !.sockets[s].promise = "rejected"]
       IN IF m.sockets[s].viaTimer THEN backoff(r) ELSE r
  ELSE m

resolveConnect(m, s) ==
  IF m.sockets[s].promise = "pending" THEN [m EXCEPT !.sockets[s].promise = "resolved"] ELSE m

\* a connect that stores the URL and counts the attempt before validating
connect_StoresFirst(m, serverUrl, options, viaTimer, waived) ==
  LET m1 == [(IF m.socket # 0 THEN disconnect(m) ELSE m)
               EXCEPT !.url = serverUrl, !.connectionAttempts = @ + 1]
  IN IF ~ValidUrl(serverUrl)
     THEN [triggerEvent(m1, "error_invalid_url") EXCEPT !.last.promise = "rejected"]
     ELSE [m1 EXCEPT !.socket = Len(m1.sockets) + 1,
                     !.sockets = Append(@, NewSocket(options, viaTimer, waived))]

connect(m, serverUrl, options, viaTimer, waived) ==
  LET m1 == IF m.socket # 0 THEN disconnect(m) ELSE m
  IN IF ~ValidUrl(serverUrl)
     THEN LET e == [triggerEvent(m1, "error_invalid_url") EXCEPT !.last.promise = "rejected"]
          IN IF viaTimer THEN backoff(e) ELSE e
     ELSE [m1 EXCEPT !.url = serverUrl,
                     !.connectionAttempts = @ + 1,
                     !.socket = Len(m1.sockets) + 1,
                     !.sockets = Append(@, NewSocket(options, viaTimer, waived))]

\* a timeout callback that rejects and leaves the transport connecting
connectionTimeout_NoClose(m, s) ==
  LET m0 == [m EXCEPT !.sockets[s].timeoutArmed = FALSE]
  IN IF ~m0.isConnected
     THEN rejectConnect(triggerEvent(m0, "error_timeout"), s)
     ELSE m0

\* a timeout callback that closes the transport and keeps the socket handle
connectionTimeout_KeepsHandle(m, s) ==
  LET m0 == [m EXCEPT !.sockets[s].timeoutArmed = FALSE]
  IN IF ~m0.isConnected
     THEN LET m1 == triggerEvent(m0, "error_timeout")
              m2 == IF m1.socket # 0 /\ m1.sockets[m1.socket].readyState = "CONNECTING"
                    THEN closeTransport(m1, m1.socket)
                    ELSE m1
          IN rejectConnect(m2, s)
     ELSE m0

\* the connectionTimeout callback of the connect call that created s
connectionTimeout(m, s) ==
  LET m0 == [m EXCEPT !.sockets[s].timeoutArmed = FALSE]
  IN IF ~m0.isConnected
     THEN LET m1 == triggerEvent(m0, "error_timeout")
              m2 == IF m1.socket # 0 /\ m1.sockets[m1.socket].readyState = "CONNECTING"
                    THEN [closeTransport(m1, m1.socket) EXCEPT !.socket = 0]
                    ELSE m1
          IN rejectConnect(m2, s)
     ELSE m0

\* an onopen that leaves the backoff delay as it is
onopen_KeepsDelay(m, s) ==
  LET m1 == [m EXCEPT !.sockets[s].readyState = "OPEN",
                      !.sockets[s].wasOpen = TRUE,
                      !.isConnected = TRUE,
                      !.connectionAttempts = 0,
                      !.sockets[s].timeoutArmed = FALSE,
                      !.failedRun = 0]
  IN resolveConnect(triggerEvent(m1, "connect"), s)

onopen(m, s) ==
  LET m1 == [m EXCEPT !.sockets[s].readyState = "OPEN",
                      !.sockets[s].wasOpen = TRUE,
                      !.isConnected = TRUE,
                      !.connectionAttempts = 0,
                      !.reconnectDelay = Ms(INITIAL_RECONNECT_DELAY),
                      !.sockets[s].timeoutArmed = FALSE,
                      !.failedRun = 0]
  IN resolveConnect(triggerEvent(m1, "connect"), s)

\* a scheduleReconnect that does not clear the timer set before
scheduleReconnect_KeepsOld(m, s) ==
  [m EXCEPT !.reconnectTimeout = s,
            !.pendingReconnect = @ \cup {s},
            !.sockets[s].schedDelay = m.reconnectDelay,
            !.sockets[s].schedN = m.failedRun,
            !.last.scheduled = TRUE]

scheduleReconnect(m, s) ==
  LET m1 == IF m.reconnectTimeout # 0
            THEN [m EXCEPT !.pendingReconnect = @ \ {m.reconnectTimeout},
                           !.last.cleared = IF m.reconnectTimeout \in m.pendingReconnect
                                            THEN m.reconnectTimeout
                                            ELSE 0]
            ELSE m
  IN [m1 EXCEPT !.reconnectTimeout = s,
                !.pendingReconnect = @ \cup {s},
                !.sockets[s].schedDelay = m.reconnectDelay,
                !.sockets[s].schedN = m.failedRun,
                !.last.scheduled = TRUE]

ShouldReconnect_IgnoresCode(code, noReconnect) == ~noReconnect

ShouldReconnect(code, noReconnect) == code # NORMAL_CLOSURE /\ ~noReconnect

MayRetry_OffByOne(attempts, unlimitedReconnect) ==
  attempts <= MAX_RECONNECT_ATTEMPTS \/ unlimitedReconnect

MayRetry(attempts, unlimitedReconnect) ==
  attempts < MAX_RECONNECT_ATTEMPTS \/ unlimitedReconnect

\* an onclose that stops at the ceiling without reporting it
onclose_SilentCeiling(m, s, code) ==
  LET m1 == [m EXCEPT !.sockets[s].readyState = "CLOSED",
                      !.sockets[s].closeCode = code,
                      !.isConnected = FALSE,
                      !.sockets[s].timeoutArmed = FALSE,
                      !.failedRun = IF m.sockets[s].wasOpen THEN @ ELSE @ + 1]
      m2 == triggerEvent(m1, "disconnect")
  IN IF ShouldReconnect(code, m.sockets[s].noReconnect)
        /\ MayRetry(m2.connectionAttempts, m.sockets[s].unlimitedReconnect)
     THEN scheduleReconnect(m2, s)
     ELSE m2

onclose(m, s, code) ==
  LET m1 == [m EXCEPT !.sockets[s].readyState = "CLOSED",
                      !.sockets[s].closeCode = code,
                      !.isConnected = FALSE,
                      !.sockets[s].timeoutArmed = FALSE,
                      !.failedRun = IF m.sockets[s].wasOpen THEN @ ELSE @ + 1]
      m2 == triggerEvent(m1, "disconnect")
  IN IF ShouldReconnect(code, m.sockets[s].noReconnect)
     THEN IF MayRetry(m2.connectionAttempts, m.sockets[s].unlimitedReconnect)
          THEN scheduleReconnect(m2, s)
          ELSE triggerEvent(m2, "error_max_reconnect_attempts")
     ELSE m2

onerror(m, s) == triggerEvent(m, "error_socket")

\* a timer callback that reconnects without announcing it
reconnectTimer_NoEvent(m, t) ==
  LET m1 == [m EXCEPT !.pendingReconnect = @ \ {t}]
  IN connect([m1 EXCEPT !.last.arg = m1.url], m1.url, NoOptions, TRUE, m.sockets[t].waived)

\* the callback of the timer scheduleReconnect sets; last.arg is the URL it
\* passes to connect
reconnectTimer(m, t) ==
  LET m1 == triggerEvent([m EXCEPT !.pendingReconnect = @ \ {t}], "reconnect")
  IN connect([m1 EXCEPT !.last.arg = m1.url], m1.url, NoOptions, TRUE, m.sockets[t].waived)

\* ------------------------------------------------------------------- send
\* a send that checks isConnected and not the transport's readyState
send_IgnoresReadyState(m, serialisable) ==
  IF ~m.isConnected \/ m.socket = 0 \/ ~serialisable
  THEN [ok |-> FALSE, m |-> triggerEvent(m, "error_send_error")]
  ELSE [ok |-> TRUE, m |-> [m EXCEPT !.last.sent = @ + 1]]

\* serialisable: whether JSON.stringify accepts the message
send(m, serialisable) ==
  IF ~m.isConnected
  THEN [ok |-> FALSE, m |-> triggerEvent(m, "error_send_error")]
  ELSE IF m.socket = 0 \/ m.sockets[m.socket].readyState # "OPEN"
  THEN [ok |-> FALSE, m |-> triggerEvent(m, "error_send_error")]
  ELSE IF ~serialisable
  THEN [ok |-> FALSE, m |-> triggerEvent(m, "error_send_error")]
  ELSE [ok |-> TRUE, m |-> [m EXCEPT !.last.sent = @ + 1]]

\* ---------------------------------------------------------- message router
onMessage(m, type, h) == [m EXCEPT !.messageHandlers[type] = Append(@, h)]

\* Array.prototype.indexOf, 1-based, 0 when absent
IndexOf(seq, x) ==
  IF \E i \in DOMAIN seq : seq[i] = x
  THEN CHOOSE i \in DOMAIN seq : seq[i] = x /\ \A j \in 1..(i - 1) : seq[j] # x
  ELSE 0

\* handlers.splice(index, 1) after const index = handlers.indexOf(handler)
RemoveFirst(seq, x) ==
  LET i == IndexOf(seq, x)
  IN IF i # 0 THEN SubSeq(seq, 1, i - 1) \o SubSeq(seq, i + 1, Len(seq)) ELSE seq

offMessage(m, type, h) == [m EXCEPT !.messageHandlers[type] = RemoveFirst(@, h)]

\* what the one-shot handler of op resolves with: data.clients || {},
\* data.presets || [], or data
resolution(op, field) ==
  IF op \in {"getClients", "getPresets"}
  THEN IF field = "value" THEN "member" ELSE "empty_container"
  ELSE "frame"

\* a one-shot handler that resolves and leaves its timeout armed
replyHandler_KeepsTimer(m, r) ==
  LET type == m.requests[r].type
      m1 == [m EXCEPT !.messageHandlers[type] = RemoveFirst(@, OneShot(r))]
  IN IF m1.requests[r].state = "pending"
     THEN [m1 EXCEPT !.requests[r].state = "resolved",
                     !.last.resolved =
                        Append(@, [req |-> r, value |-> resolution(m.requests[r].op, m.last.field)])]
     ELSE m1

\* the one-shot handler of request r
replyHandler(m, r) ==
  LET type == m.requests[r].type
      m1 == [m EXCEPT !.messageHandlers[type] = RemoveFirst(@, OneShot(r)),
                      !.requests[r].timer = FALSE]
  IN IF m1.requests[r].state = "pending"
     THEN [m1 EXCEPT !.requests[r].state = "resolved",
                     !.last.resolved =
                        Append(@, [req |-> r, value |-> resolution(m.requests[r].op, m.last.field)])]
     ELSE m1

\* the body of handleMessage's forEach callback for handler h
callHandler(m, h) ==
  LET m1 == [m EXCEPT !.last.invoked = Append(@, h)]
  IN IF h.once
     THEN replyHandler(m1, h.id)
     ELSE IF Throws(h.id) THEN triggerEvent(m1, "error_handler_error") ELSE m1

\* Array.prototype.forEach over the live array: the length is read once, index
\* k is visited if the array still has an element there when k is reached
RECURSIVE forEachHandler(_, _, _, _)
forEachHandler(m, type, k, len) ==
  IF k > len
  THEN m
  ELSE IF k > Len(m.messageHandlers[type])
  THEN forEachHandler(m, type, k + 1, len)
  ELSE forEachHandler(callHandler(m, m.messageHandlers[type][k]), type, k + 1, len)

handleMessage(m, type) ==
  IF type \in MsgTypes
  THEN forEachHandler(m, type, 1, Len(m.messageHandlers[type]))
  ELSE m

\* an inbound frame: text that JSON.parse rejects, the JSON text null, or an
\* object with a type; field is the object's clients / presets member
\* (absent, null, or a value)
FrameTypes == MsgTypes \cup {"status"}
FieldValues(ty) ==
  IF ty \in {"client_list", "preset_list"} THEN {"absent", "null", "value"} ELSE {"absent"}
Frames ==
  {[json |-> FALSE, value |-> "none", type |-> "none", field |-> "none"],
   [json |-> TRUE, value |-> "null", type |-> "none", field |-> "none"]}
  \cup UNION {{[json |-> TRUE, value |-> "object", type |-> ty, field |-> f] :
                 f \in FieldValues(ty)} : ty \in FrameTypes}

\* an onmessage that reports the parse error and fires the message event anyway
onmessage_MessageAnyway(m, frame) ==
  IF ~frame.json \/ frame.value = "null"
  THEN triggerEvent(triggerEvent(m, "error_parse_error"), "message")
  ELSE triggerEvent(handleMessage(m, frame.type), "message")

\* handleMessage(null) throws a TypeError at data.type, inside onmessage's try
onmessage(m, frame) ==
  IF ~frame.json
  THEN triggerEvent(m, "error_parse_error")
  ELSE IF frame.value = "null"
  THEN triggerEvent(m, "error_parse_error")
  ELSE triggerEvent(handleMessage(m, frame.type), "message")

\* ------------------------------------------------------ request operations
\* what the five operations share: register the one-shot handler, arm the
\* timeout, send the command; the .catch callback of send runs on failure
FreeSlots(m) == {r \in DOMAIN m.requests : m.requests[r] = Free}

request(m, op, serialisable) ==
  LET r == CHOOSE f \in FreeSlots(m) : \A g \in FreeSlots(m) : f <= g
      type == ReplyType(op)
      m1 == [m EXCEPT !.requests[r] =
               [op |-> op, type |-> type, state |-> "pending", timer |-> TRUE,
                rejectedBy |-> "none"],
                      !.last.req = r]
      s == send(onMessage(m1, type, OneShot(r)), serialisable)
  IN IF s.ok
     THEN [s.m EXCEPT !.last.outcome = "sent"]
     ELSE [s.m EXCEPT !.requests[r].timer = FALSE,
                      !.requests[r].state = "rejected",
                      !.requests[r].rejectedBy = "send",
                      !.last.outcome = "send_failed"]

Refuse(m, why) == [m EXCEPT !.last.outcome = why]

getClients(m) ==
  IF ~m.isConnected THEN Refuse(m, "not_connected") ELSE request(m, "getClients", TRUE)

getPresets(m) ==
  IF ~m.isConnected THEN Refuse(m, "not_connected") ELSE request(m, "getPresets", TRUE)

\* the arguments a caller may pass, by what the validation and JSON.stringify
\* make of them
ClientIdArgs == {"not_array", "empty_array", "ids"}
DisplayArgs == {"null", "not_object", "object", "circular_object"}
NameArgs == {"empty_string", "not_string", "name"}

updateDisplay(m, clientIds, displayData) ==
  IF clientIds # "ids"
  THEN Refuse(m, "invalid_argument")
  ELSE IF displayData \in {"null", "not_object"}
  THEN Refuse(m, "invalid_argument")
  ELSE request(m, "updateDisplay", displayData # "circular_object")

\* savePreset without the check of its argument
savePreset_NoValidation(m, name) == request(m, "savePreset", TRUE)

savePreset(m, name) ==
  IF name # "name" THEN Refuse(m, "invalid_argument") ELSE request(m, "savePreset", TRUE)

loadPreset(m, name) ==
  IF name # "name" THEN Refuse(m, "invalid_argument") ELSE request(m, "loadPreset", TRUE)

\* a timeout callback that rejects and leaves the handler registered
requestTimeout_KeepsHandler(m, r) ==
  LET m1 == [m EXCEPT !.requests[r].timer = FALSE]
  IN IF m1.requests[r].state = "pending"
     THEN [m1 EXCEPT !.requests[r].state = "rejected",
                     !.requests[r].rejectedBy = "timeout",
                     !.last.outcome = "rejected_timeout",
                     !.last.op = m.requests[r].type]
     ELSE m1

\* a timeout callback that empties the handler lists of the other types
requestTimeout_ClearsOtherTypes(m, r) ==
  LET type == m.requests[r].type
      m1 == [m EXCEPT !.requests[r].timer = FALSE,
                      !.messageHandlers =
                         [t \in MsgTypes |-> IF t = type THEN RemoveFirst(@[t], OneShot(r)) ELSE <<>>]]
  IN IF m1.requests[r].state = "pending"
     THEN [m1 EXCEPT !.requests[r].state = "rejected",
                     !.requests[r].rejectedBy = "timeout",
                     !.last.outcome = "rejected_timeout",
                     !.last.op = type]
     ELSE m1

\* a timeout callback that deregisters the handler and does not reject
requestTimeout_NeverRejects(m, r) ==
  [m EXCEPT !.requests[r].timer = FALSE,
            !.messageHandlers[m.requests[r].type] = RemoveFirst(@, OneShot(r))]

\* the timeout callback of request r; its error message names the reply type
requestTimeout(m, r) ==
  LET type == m.requests[r].type
      m1 == [m EXCEPT !.requests[r].timer = FALSE,
                      !.messageHandlers[type] = RemoveFirst(@, OneShot(r))]
  IN IF m1.requests[r].state = "pending"
     THEN [m1 EXCEPT !.requests[r].state = "rejected",
                     !.requests[r].rejectedBy = "timeout",
                     !.last.outcome = "rejected_timeout",
                     !.last.op = type]
     ELSE m1

\* ----------------------------------------------------------------- actions
SocketIds == 1..Len(sockets)

\* the observation of a step on transport s, taken before its handler runs
Observe(kind, s, code, errored) ==
  [Step(kind, s) EXCEPT !.code = code, !.errored = errored,
                        !.wasOpen = sockets[s].wasOpen,
                        !.noReconnect = sockets[s].noReconnect,
                        !.waived = sockets[s].waived]

\* ... and its promise after the handler ran
Settled(m, s) == [m EXCEPT !.last.promise = m.sockets[s].promise]

CallConnect(u, options) ==
  Commit([connect([Cur EXCEPT !.last = [Step("call_connect", 0) EXCEPT !.arg = u]],
                  u, options, FALSE, options.unlimitedReconnect)
            EXCEPT !.calls = @ + 1,
                   !.callerDisconnected = FALSE,
                   !.requestedUrl = IF ValidUrl(u) THEN u ELSE @,
                   !.superseded = IF ValidUrl(u) THEN @ \cup pendingReconnect ELSE @])

CallDisconnect ==
  Commit([disconnect([Cur EXCEPT !.last = Step("call_disconnect", 0)])
            EXCEPT !.calls = @ + 1, !.callerDisconnected = TRUE])

\* the caller calls disconnect() and the transport's close() throws
CallDisconnectCloseThrows ==
  Commit([disconnectWith([Cur EXCEPT !.last =
                            [Step("call_disconnect", 0) EXCEPT
                               !.sock = socket,
                               !.errored = /\ socket # 0
                                           /\ sockets[socket].readyState \in {"OPEN", "CONNECTING"}]],
                         TRUE)
            EXCEPT !.calls = @ + 1, !.callerDisconnected = TRUE])

ConnectionTimeout(s) ==
  /\ sockets[s].timeoutArmed
  /\ Commit(Settled(connectionTimeout([Cur EXCEPT !.last = Observe("timeout", s, 0, FALSE)], s), s))

SocketOpen(s) ==
  /\ sockets[s].readyState = "CONNECTING"
  /\ Commit(Settled(onopen([Cur EXCEPT !.last = Observe("open", s, 0, FALSE)], s), s))

\* the peer starts the closing handshake: the object is CLOSING until the close event
PeerClosing(s) ==
  /\ sockets[s].readyState = "OPEN"
  /\ Commit([Cur EXCEPT !.sockets[s].readyState = "CLOSING", !.last = Step("peer_closing", s)])

\* the connection fails: the browser fires the error event and then the close
\* event, with an abnormal code, in one task
SocketFail(s) ==
  /\ sockets[s].readyState # "CLOSED"
  /\ Commit(Settled(onclose(onerror([Cur EXCEPT !.last = Observe("close", s, ABNORMAL_CLOSURE, TRUE)], s),
                            s, ABNORMAL_CLOSURE), s))

\* the connection closes without an error event; the close event reports
\* NORMAL_CLOSURE only after a closing handshake on an established connection
SocketClose(s, code) ==
  /\ sockets[s].readyState # "CLOSED"
  /\ code = NORMAL_CLOSURE => sockets[s].wasOpen
  /\ Commit(Settled(onclose([Cur EXCEPT !.last = Observe("close", s, code, FALSE)], s, code), s))

ReconnectTimer(t) ==
  /\ t \in pendingReconnect
  /\ Commit(reconnectTimer([Cur EXCEPT !.last = [Step("reconnect", t) EXCEPT
                                                   !.stale = t \in superseded,
                                                   !.code = sockets[t].closeCode,
                                                   !.noReconnect = sockets[t].noReconnect,
                                                   !.waived = sockets[t].waived]], t))

\* the caller calls send(message)
CallSend(serialisable) ==
  LET r == send([Cur EXCEPT !.last = [Step("send", 0) EXCEPT
                                        !.op = IF serialisable THEN "serialisable" ELSE "circular"]],
                serialisable)
  IN Commit([r.m EXCEPT !.last.outcome = IF r.ok THEN "resolved" ELSE "rejected"])

CallAddEventListener(event, cb) ==
  Commit(addEventListener([Cur EXCEPT !.last = [Step("add_listener", 0) EXCEPT !.op = event]],
                          event, cb))

CallRemoveEventListener(event, cb) ==
  Commit(removeEventListener([Cur EXCEPT !.last = [Step("remove_listener", 0) EXCEPT !.op = event]],
                             event, cb))

Asked(op) == [Cur EXCEPT !.last = [Step("request", 0) EXCEPT !.op = op]]

CallGetClients == Commit(getClients(Asked("getClients")))

CallGetPresets == Commit(getPresets(Asked("getPresets")))

CallUpdateDisplay(clientIds, displayData) ==
  Commit(updateDisplay([Asked("updateDisplay") EXCEPT !.last.arg = <<clientIds, displayData>>],
                       clientIds, displayData))

CallSavePreset(name) ==
  Commit(savePreset([Asked("savePreset") EXCEPT !.last.arg = <<name>>], name))

CallLoadPreset(name) ==
  Commit(loadPreset([Asked("loadPreset") EXCEPT !.last.arg = <<name>>], name))

CallOnMessage(type, h) ==
  Commit(onMessage([Cur EXCEPT !.last = Step("on_message", 0)], type, Persistent(h)))

CallOffMessage(type, h) ==
  /\ Registered(Cur, type, Persistent(h))
  /\ Commit(offMessage([Cur EXCEPT !.last = Step("off_message", 0)], type, Persistent(h)))

RequestTimeout(r) ==
  /\ requests[r].timer
  /\ Commit(requestTimeout([Cur EXCEPT !.last = [Step("request_timeout", 0) EXCEPT !.req = r]], r))

\* a frame arrives on an open transport
SocketMessage(s, frame) ==
  /\ sockets[s].readyState = "OPEN"
  /\ Commit(onmessage([Cur EXCEPT !.last =
                         [Step("message", s) EXCEPT
                            !.op = frame.type,
                            !.field = frame.field,
                            !.outcome = IF frame.json THEN "decoded" ELSE "not_json",
                            !.snapshot = IF frame.type \in MsgTypes
                                         THEN messageHandlers[frame.type]
                                         ELSE <<>>]],
                      frame))

Next ==
  \/ \E u \in Urls, options \in CallerOptions :
       calls < MaxCalls /\ Len(sockets) < MaxSockets /\ CallConnect(u, options)
  \/ calls < MaxCalls /\ CallDisconnect
  \/ \E s \in SocketIds : ConnectionTimeout(s)
  \/ \E s \in SocketIds : SocketOpen(s)
  \/ \E s \in SocketIds : PeerClosing(s)
  \/ \E s \in SocketIds : SocketFail(s)
  \/ \E s \in SocketIds, code \in CloseCodes : SocketClose(s, code)
  \/ \E t \in SocketIds : Len(sockets) < MaxSockets /\ ReconnectTimer(t)

Spec == Init /\ [][Next]_vars

\* The reconnection loop left alone: the caller calls connect() once and makes
\* no further call.
NextLoop ==
  \/ \E u \in Urls, options \in CallerOptions : calls = 0 /\ CallConnect(u, options)
  \/ \E s \in SocketIds : ConnectionTimeout(s)
  \/ \E s \in SocketIds : SocketOpen(s)
  \/ \E s \in SocketIds : PeerClosing(s)
  \/ \E s \in SocketIds : SocketFail(s)
  \/ \E s \in SocketIds, code \in CloseCodes : SocketClose(s, code)
  \/ \E t \in SocketIds : Len(sockets) < MaxLoopSockets /\ ReconnectTimer(t)

SpecLoop == Init /\ [][NextLoop]_vars

\* Requests and inbound frames on a service that the caller connects once,
\* with noReconnect, as dashboard.jsx connects its second service.
CallerHandlers ==
  {e \in UNION {{<<type, i>> : i \in DOMAIN messageHandlers[type]} : type \in MsgTypes} :
     ~messageHandlers[e[1]][e[2]].once}

HasFreeSlot == Cardinality(DOMAIN requests \ FreeSlots(Cur)) < MaxRequests

NextReq ==
  \/ Len(sockets) = 0 /\ CallConnect(WsA, [NoOptions EXCEPT !.noReconnect = TRUE])
  \/ socket # 0 /\ CallDisconnect
  \/ \E s \in SocketIds : ConnectionTimeout(s)
  \/ \E s \in SocketIds : SocketOpen(s)
  \/ \E s \in SocketIds : PeerClosing(s)
  \/ \E s \in SocketIds : SocketFail(s)
  \/ \E s \in SocketIds, code \in CloseCodes : SocketClose(s, code)
  \/ HasFreeSlot /\ CallGetClients
  \/ HasFreeSlot /\ CallGetPresets
  \/ \E c \in {"ids", "empty_array"}, d \in {"object", "circular_object"} :
       HasFreeSlot /\ CallUpdateDisplay(c, d)
  \/ \E n \in {"name", "empty_string"} : HasFreeSlot /\ CallSavePreset(n)
  \/ \E n \in {"name", "empty_string"} : HasFreeSlot /\ CallLoadPreset(n)
  \/ \E type \in CallerTypes, h \in Callbacks :
       Cardinality(CallerHandlers) < MaxRegistrations /\ CallOnMessage(type, h)
  \/ \E type \in CallerTypes, h \in Callbacks : CallOffMessage(type, h)
  \/ \E r \in DOMAIN requests : RequestTimeout(r)
  \/ \E s \in SocketIds, frame \in Frames : SocketMessage(s, frame)
  \/ \E serialisable \in BOOLEAN : CallSend(serialisable)

SpecReq == Init /\ [][NextReq]_vars

\* Several getClients requests pending at once on one open connection, and
\* client_list frames arriving.
NextQueue ==
  \/ Len(sockets) = 0 /\ CallConnect(WsA, [NoOptions EXCEPT !.noReconnect = TRUE])
  \/ \E s \in SocketIds : SocketOpen(s)
  \/ \E s \in SocketIds : PeerClosing(s)
  \/ \E s \in SocketIds, code \in CloseCodes : SocketClose(s, code)
  \/ Cardinality(DOMAIN requests \ FreeSlots(Cur)) < MaxPending /\ CallGetClients
  \/ \E r \in DOMAIN requests : RequestTimeout(r)
  \/ \E s \in SocketIds, frame \in {f \in Frames : f.type = "client_list" \/ ~f.json} :
       SocketMessage(s, frame)

SpecQueue == Init /\ [][NextQueue]_vars

\* requests outliving their connection: the caller connects, disconnects and
\* connects again while requests are pending
NextSettle ==
  \/ calls < MaxCalls /\ CallConnect(WsA, [NoOptions EXCEPT !.noReconnect = TRUE])
  \/ calls < MaxCalls /\ socket # 0 /\ CallDisconnect
  \/ \E s \in SocketIds : SocketOpen(s)
  \/ \E s \in SocketIds : \E code \in CloseCodes : SocketClose(s, code)
  \/ HasFreeSlot /\ CallGetClients
  \/ \E r \in DOMAIN requests : RequestTimeout(r)
  \/ \E s \in SocketIds : \E f \in {f \in Frames : f.type = "client_list"} : SocketMessage(s, f)

\* a timer set with setTimeout fires unless it is cleared
SpecSettle ==
  /\ Init
  /\ [][NextSettle]_vars
  /\ \A r \in 1..Max(MaxRequests, MaxPending) : WF_vars(RequestTimeout(r))

\* The reconnection loop against a server that accepts at most the caller's
\* own attempt: every attempt made by a reconnection timer fails, by timeout
\* or by error and close.  The caller calls connect() once, without options.
\* A chain of failures creates at most MAX_RECONNECT_ATTEMPTS transports after
\* the caller's.
NextFail ==
  \/ calls = 0 /\ CallConnect(WsA, NoOptions)
  \/ \E s \in SocketIds : ConnectionTimeout(s)
  \/ \E s \in SocketIds : ~sockets[s].viaTimer /\ SocketOpen(s)
  \/ \E s \in SocketIds : SocketFail(s)
  \/ \E s \in SocketIds : \E code \in CloseCodes : SocketClose(s, code)
  \/ \E t \in SocketIds : Len(sockets) <= MAX_RECONNECT_ATTEMPTS /\ ReconnectTimer(t)

\* the close event of a transport that is closing
CloseDelivered(s) ==
  /\ s \in SocketIds
  /\ sockets[s].readyState = "CLOSING"
  /\ SocketFail(s)

\* timers set with setTimeout fire unless cleared, and a transport that is
\* closing delivers its close event
SpecFail ==
  /\ Init
  /\ [][NextFail]_vars
  /\ \A s \in 1..(MAX_RECONNECT_ATTEMPTS + 1) :
       /\ WF_vars(ReconnectTimer(s))
       /\ WF_vars(s \in SocketIds /\ ConnectionTimeout(s))
       /\ WF_vars(CloseDelivered(s))

\* Reconnection with the caller connecting to two servers, and to an invalid URL
NextRetry ==
  \/ \E u \in {WsA, WssB, HttpX} :
       \E options \in {NoOptions, [NoOptions EXCEPT !.noReconnect = TRUE]} :
         calls < MaxCalls /\ Len(sockets) < MaxSockets /\ CallConnect(u, options)
  \/ calls < MaxCalls /\ CallDisconnect
  \/ \E s \in SocketIds : ConnectionTimeout(s)
  \/ \E s \in SocketIds : SocketOpen(s)
  \/ \E s \in SocketIds : SocketFail(s)
  \/ \E s \in SocketIds : \E code \in CloseCodes : SocketClose(s, code)
  \/ \E t \in SocketIds : Len(sockets) < MaxSockets /\ ReconnectTimer(t)

SpecRetry == Init /\ [][NextRetry]_vars

\* Long runs of failed reconnection attempts: whenever the loop has stopped,
\* the caller connects again with unlimitedReconnect.
NextBackoff ==
  \/ /\ Len(sockets) < MaxBackoffSockets
     /\ pendingReconnect = {}
     /\ \A s \in SocketIds : sockets[s].readyState = "CLOSED"
     /\ CallConnect(WsA, [NoOptions EXCEPT !.unlimitedReconnect = TRUE])
  \/ \E s \in SocketIds : ConnectionTimeout(s)
  \/ \E s \in SocketIds : SocketOpen(s)
  \/ \E s \in SocketIds : SocketFail(s)
  \/ \E s \in SocketIds : \E code \in CloseCodes : SocketClose(s, code)
  \/ \E t \in SocketIds : Len(sockets) < MaxBackoffSockets /\ ReconnectTimer(t)

SpecBackoff == Init /\ [][NextBackoff]_vars

\* Teardown: the caller connects and disconnects, and the transport's close()
\* may throw.
NextTeardown ==
  \/ calls < MaxTeardownCalls /\ Len(sockets) < MaxSockets /\ CallConnect(WsA, NoOptions)
  \/ calls < MaxTeardownCalls /\ CallDisconnect
  \/ calls < MaxTeardownCalls /\ CallDisconnectCloseThrows
  \/ \E s \in SocketIds : ConnectionTimeout(s)
  \/ \E s \in SocketIds : SocketOpen(s)
  \/ \E s \in SocketIds : SocketFail(s)
  \/ \E s \in SocketIds : \E code \in CloseCodes : SocketClose(s, code)
  \/ \E t \in SocketIds : Len(sockets) < MaxSockets /\ ReconnectTimer(t)

SpecTeardown == Init /\ [][NextTeardown]_vars

\* The operations that take arguments, called with every kind of argument
\* while earlier requests are pending.
NextArgs ==
  \/ Len(sockets) = 0 /\ CallConnect(WsA, [NoOptions EXCEPT !.noReconnect = TRUE])
  \/ \E s \in SocketIds : SocketOpen(s)
  \/ \E s \in SocketIds : \E code \in CloseCodes : SocketClose(s, code)
  \/ \E c \in ClientIdArgs : \E d \in DisplayArgs :
       Cardinality(DOMAIN requests \ FreeSlots(Cur)) <= MaxRequests /\ CallUpdateDisplay(c, d)
  \/ \E n \in NameArgs :
       Cardinality(DOMAIN requests \ FreeSlots(Cur)) <= MaxRequests /\ CallSavePreset(n)
  \/ \E n \in NameArgs :
       Cardinality(DOMAIN requests \ FreeSlots(Cur)) <= MaxRequests /\ CallLoadPreset(n)
  \/ \E r \in DOMAIN requests : RequestTimeout(r)
  \/ \E s \in SocketIds :
       \E f \in {f \in Frames : f.type \in {"display_updated", "preset_saved", "preset_loaded"}} :
         SocketMessage(s, f)

SpecArgs == Init /\ [][NextArgs]_vars

\* Requests awaiting different reply types at once; the peer may start
\* closing, and a display payload may be circular, so that a send fails.
NextTypes ==
  \/ Len(sockets) = 0 /\ CallConnect(WsA, [NoOptions EXCEPT !.noReconnect = TRUE])
  \/ \E s \in SocketIds : SocketOpen(s)
  \/ \E s \in SocketIds : PeerClosing(s)
  \/ \E s \in SocketIds : \E code \in CloseCodes : SocketClose(s, code)
  \/ Cardinality(DOMAIN requests \ FreeSlots(Cur)) <= MaxRequests /\ CallGetClients
  \/ Cardinality(DOMAIN requests \ FreeSlots(Cur)) <= MaxRequests /\ CallGetPresets
  \/ \E d \in {"object", "circular_object"} :
       Cardinality(DOMAIN requests \ FreeSlots(Cur)) <= MaxRequests /\ CallUpdateDisplay("ids", d)
  \/ \E r \in DOMAIN requests : RequestTimeout(r)
  \/ \E s \in SocketIds :
       \E f \in {f \in Frames : f.type \in {"client_list", "preset_list", "display_updated"}
                                 /\ f.field \in {"absent", "value"}} :
         SocketMessage(s, f)

SpecTypes == Init /\ [][NextTypes]_vars

\* The router with several handlers for one type: the caller's handlers, one
\* of which throws, around the one-shot handler of a getClients request.
NextRouter ==
  \/ Len(sockets) = 0 /\ CallConnect(WsA, [NoOptions EXCEPT !.noReconnect = TRUE])
  \/ \E s \in SocketIds : SocketOpen(s)
  \/ \E s \in SocketIds : \E code \in CloseCodes : SocketClose(s, code)
  \/ \E h \in Callbacks :
       /\ Cardinality(CallerHandlers) < MaxRouterHandlers
       /\ ~Registered(Cur, "client_list", Persistent(h))
       /\ CallOnMessage("client_list", h)
  \/ \E h \in Callbacks : CallOffMessage("client_list", h)
  \/ HasFreeSlot /\ CallGetClients
  \/ \E r \in DOMAIN requests : RequestTimeout(r)
  \/ \E s \in SocketIds : \E f \in {f \in Frames : f.type = "client_list"} : SocketMessage(s, f)

SpecRouter == Init /\ [][NextRouter]_vars

\* Event listeners on a service that the caller connects once; the caller
\* also passes an event name the service does not know.
Listeners == {e \in EventNames \X (1..MaxListeners) : e[2] \in DOMAIN eventListeners[e[1]]}

NextEvents ==
  \/ Len(sockets) = 0 /\ CallConnect(WsA, [NoOptions EXCEPT !.noReconnect = TRUE])
  \/ \E s \in SocketIds : SocketOpen(s)
  \/ \E s \in SocketIds : SocketFail(s)
  \/ \E s \in SocketIds, code \in CloseCodes : SocketClose(s, code)
  \/ \E s \in SocketIds, frame \in {f \in Frames : f.type \in {"none", "status"}} :
       SocketMessage(s, frame)
  \/ \E event \in EventNames \cup {"close"}, cb \in Callbacks :
       Cardinality(Listeners) < MaxListeners /\ CallAddEventListener(event, cb)
  \/ \E event \in EventNames \cup {"close"}, cb \in Callbacks :
       CallRemoveEventListener(event, cb)

SpecEvents == Init /\ [][NextEvents]_vars

\* Listeners that unsubscribe themselves while an event is dispatched
NextOnce ==
  \/ Len(sockets) = 0 /\ CallConnect(WsA, [NoOptions EXCEPT !.noReconnect = TRUE])
  \/ \E s \in SocketIds : SocketOpen(s)
  \/ \E s \in SocketIds : \E code \in CloseCodes : SocketClose(s, code)
  \/ \E s \in SocketIds : \E frame \in {f \in Frames : f.type = "status"} : SocketMessage(s, frame)
  \/ \E event \in {"connect", "disconnect", "message"} : \E cb \in {1, OnceCallback} :
       Cardinality(Listeners) < MaxListeners /\ CallAddEventListener(event, cb)
  \/ \E event \in {"connect", "disconnect", "message"} : \E cb \in {1, OnceCallback} :
       CallRemoveEventListener(event, cb)

SpecOnce == Init /\ [][NextOnce]_vars

\* Two instances, as dashboard.jsx creates them.  The steps of the second
\* instance are the same handlers run on its own closure.
\* a step of the second instance that also writes the handler table of the first
PeerCommit_SharedHandlers(n) ==
  /\ peer' = Forget(n)
  /\ messageHandlers' = Forget(n).messageHandlers
  /\ UNCHANGED <<socket, isConnected, reconnectTimeout, reconnectDelay, url, connectionAttempts,
                 sockets, pendingReconnect, emitted, calls, callerDisconnected, requestedUrl,
                 superseded, failedRun, requests, eventListeners, last>>

\* a step of the second instance assigns the variables of its own closure
PeerCommit(n) ==
  /\ peer' = Forget(n)
  /\ UNCHANGED service

PeerConnect ==
  /\ Len(peer.sockets) = 0
  /\ PeerCommit(connect([peer EXCEPT !.last = Step("call_connect", 0)], WsA,
                        [NoOptions EXCEPT !.noReconnect = TRUE], FALSE, FALSE))

PeerOpen(s) ==
  /\ s \in DOMAIN peer.sockets
  /\ peer.sockets[s].readyState = "CONNECTING"
  /\ PeerCommit(onopen([peer EXCEPT !.last = Step("open", s)], s))

PeerClose(s, code) ==
  /\ s \in DOMAIN peer.sockets
  /\ peer.sockets[s].readyState # "CLOSED"
  /\ code = NORMAL_CLOSURE => peer.sockets[s].wasOpen
  /\ PeerCommit(onclose([peer EXCEPT !.last = [Step("close", s) EXCEPT !.code = code]], s, code))

PeerOnMessage(type, h) ==
  /\ ~Registered(peer, type, Persistent(h))
  /\ PeerCommit(onMessage([peer EXCEPT !.last = Step("on_message", 0)], type, Persistent(h)))

PeerAddEventListener(event, cb) ==
  /\ Len(peer.eventListeners[event]) = 0
  /\ PeerCommit(addEventListener([peer EXCEPT !.last = Step("add_listener", 0)], event, cb))

PeerMessage(s, frame) ==
  /\ s \in DOMAIN peer.sockets
  /\ peer.sockets[s].readyState = "OPEN"
  /\ PeerCommit(onmessage([peer EXCEPT !.last =
                             [Step("message", s) EXCEPT
                                !.op = frame.type,
                                !.field = frame.field,
                                !.outcome = IF frame.json THEN "decoded" ELSE "not_json",
                                !.snapshot = peer.messageHandlers[frame.type]]],
                          frame))

NextTwo ==
  \/ Len(sockets) = 0 /\ CallConnect(WsA, NoOptions)
  \/ \E s \in SocketIds : SocketOpen(s)
  \/ \E s \in SocketIds : \E code \in CloseCodes : Len(sockets) < 2 /\ SocketClose(s, code)
  \/ \E t \in SocketIds : Len(sockets) < 2 /\ ReconnectTimer(t)
  \/ \E h \in Callbacks :
       Cardinality(CallerHandlers) < MaxRegistrations /\ CallOnMessage("client_list", h)
  \/ HasFreeSlot /\ CallGetClients
  \/ \E r \in DOMAIN requests : RequestTimeout(r)
  \/ \E s \in SocketIds : \E f \in {f \in Frames : f.type = "client_list" /\ f.field = "value"} :
       SocketMessage(s, f)
  \/ PeerConnect
  \/ \E s \in {1} : PeerOpen(s)
  \/ \E s \in {1} : \E code \in CloseCodes : PeerClose(s, code)
  \/ \E h \in Callbacks : PeerOnMessage("client_list", h)
  \/ \E cb \in Callbacks : PeerAddEventListener("error", cb)
  \/ \E f \in {f \in Frames : f.type = "client_list" /\ f.field = "value"} : PeerMessage(1, f)

SpecTwo == Init /\ [][NextTwo]_vars

\* ------------------------------------------------------------------ claims
MaxErrors == emitted["error_max_reconnect_attempts"]

Count(seq, x) == Cardinality({i \in DOMAIN seq : seq[i] = x})

\* min(1000 * 1.5^(n-1), 30000) ms
ExpectedDelay(n) ==
  Min((Ms(INITIAL_RECONNECT_DELAY) * 3 ^ (n - 1)) \div 2 ^ (n - 1), Ms(MAX_RECONNECT_DELAY))

\* C1: when the send of a request operation fails, the request is rejected, its
\* timeout is cancelled and its one-shot handler is out of the handler table.
C1_SendFailureCleansUp ==
  (last.kind = "request" /\ last.outcome = "send_failed")
  => (/\ requests[last.req].state # "pending"
      /\ ~requests[last.req].timer
      /\ ~Registered(Cur, ReplyType(last.op), OneShot(last.req)))

\* C2: when the close event of the N-th consecutive failed attempt (N below the
\* ceiling, the attempt having failed by error and close) schedules the next
\* reconnection, the timer is set with min(1000 * 1.5^(N-1), 30000) ms.
C2_BackoffDelay ==
  (/\ last.kind = "close"
   /\ last.errored
   /\ last.scheduled
   /\ sockets[last.sock].schedN \in 1..(MAX_RECONNECT_ATTEMPTS - 1))
  => sockets[last.sock].schedDelay = ExpectedDelay(sockets[last.sock].schedN)

\* C3: when a transport that never opened signals an error and closes, the
\* close event settles the connect call that created it.
C3_CloseSettlesConnect ==
  (last.kind = "close" /\ last.errored /\ ~last.wasOpen) => last.promise # "pending"

\* C4: the dispatch of a decoded frame invokes every handler that was
\* registered for the frame's type when it arrived, once each, in
\* registration order.
C4_DispatchInvokesAll == last.kind = "message" => last.invoked = last.snapshot

OneShots(type) == {i \in DOMAIN messageHandlers[type] : messageHandlers[type][i].once}

Pending(type) == {r \in DOMAIN requests : requests[r].state = "pending" /\ requests[r].type = type}

\* C5: for every message type, the handler table holds at most as many
\* one-shot handlers as there are pending requests awaiting that type.
C5_OneShotsBoundedByPending ==
  \A type \in MsgTypes : Cardinality(OneShots(type)) <= Cardinality(Pending(type))

C7_CleanCloseNoReconnect ==
  /\ (last.kind = "close" /\ (last.code = NORMAL_CLOSURE \/ last.noReconnect))
       => (~last.scheduled /\ last.sock \notin pendingReconnect)
  /\ last.kind = "reconnect" => (last.code = ABNORMAL_CLOSURE /\ ~last.noReconnect)
  /\ \A t \in pendingReconnect :
       sockets[t].closeCode = ABNORMAL_CLOSURE /\ ~sockets[t].noReconnect

C7_Witness ==
  /\ last.kind = "close"
  /\ last.wasOpen
  /\ last.code = NORMAL_CLOSURE
  /\ ~last.noReconnect
  /\ ~last.scheduled
  /\ pendingReconnect = {}

\* C8: after the caller's disconnect() no reconnection timer fires (no
\* reconnect event, no new transport) until the caller calls connect().
C8_NoReconnectAfterDisconnect == callerDisconnected => last.kind # "reconnect"

\* C9: a reconnection timer that was pending when the caller called connect()
\* never fires afterwards.
C9_ConnectInvalidatesTimer == last.kind = "reconnect" => ~last.stale

\* C10: on a connection whose caller waived the ceiling, every unclean close
\* schedules a reconnection and the max_reconnect_attempts error never fires.
C10_WaivedCeiling ==
  (/\ last.kind = "close"
   /\ last.waived
   /\ ~last.noReconnect
   /\ last.code # NORMAL_CLOSURE)
  => (last.scheduled /\ Count(last.events, "error_max_reconnect_attempts") = 0)

\* C11: a connect call with a valid URL is resolved only by the open event of
\* the transport it created, and only while it is pending; once its
\* connection timeout has rejected it, it is never resolved and its transport
\* delivers no open event (so no connect event).
C11_ResolveOnlyOnOpen ==
  [][\A s \in DOMAIN sockets :
       /\ (sockets[s].promise # "resolved" /\ sockets'[s].promise = "resolved")
            => (sockets[s].promise = "pending" /\ last'.kind = "open" /\ last'.sock = s)
       /\ sockets[s].promise = "rejected"
            => (/\ sockets'[s].promise # "resolved"
                /\ ~(last'.kind = "open" /\ last'.sock = s)
                /\ sockets'[s].readyState # "OPEN")]_vars

C11_Witness ==
  /\ last.kind = "timeout"
  /\ last.promise = "rejected"
  /\ sockets[last.sock].readyState = "CLOSING"
  /\ \E t \in DOMAIN sockets : sockets[t].promise = "resolved"

\* C12: a connect call whose URL starts with neither ws:// nor wss:// is
\* rejected with the invalid-URL error, creates no transport and leaves the
\* attempt counter and the stored URL unchanged.
C12_InvalidUrlRejected ==
  [][(/\ last'.kind = "call_connect"
      /\ ~StartsWith(last'.arg, <<"w", "s", ":", "/", "/">>)
      /\ ~StartsWith(last'.arg, <<"w", "s", "s", ":", "/", "/">>))
     => (/\ last'.promise = "rejected"
         /\ last'.events = <<"error_invalid_url">>
         /\ Len(sockets') = Len(sockets)
         /\ connectionAttempts' = connectionAttempts
         /\ url' = url)]_vars

C12_Witness ==
  /\ last.kind = "call_connect"
  /\ last.arg = HttpX
  /\ last.promise = "rejected"
  /\ url = WsA
  /\ connectionAttempts = 1

\* C13: disconnect() is idempotent: in the state a disconnect() call leaves,
\* another disconnect() changes nothing; a disconnect() call emits no event,
\* a second call in a row changes no variable of the service, and the close
\* of a transport emits exactly one disconnect event.
C13_DisconnectIdempotent ==
  /\ [](last.kind = "call_disconnect" => (disconnect(Cur) = Cur /\ last.events = <<>>))
  /\ [](last.kind = "close" => Count(last.events, "disconnect") = 1)
  /\ [][(last.kind = "call_disconnect" /\ last'.kind = "call_disconnect")
        => (/\ UNCHANGED <<socket, isConnected, reconnectTimeout, reconnectDelay, url,
                           connectionAttempts, sockets, pendingReconnect, emitted,
                           messageHandlers, requests>>
            /\ last'.events = <<>>)]_vars

C13_Witness ==
  /\ last.kind = "call_disconnect"
  /\ socket = 0
  /\ \E s \in DOMAIN sockets : sockets[s].readyState = "CLOSING"

\* C14: when the timeout of a pending request fires, the request is rejected
\* with a timeout error that names its reply type, and afterwards no handler
\* installed by that request is in the handler table.
C14_TimeoutRejectsAndDeregisters ==
  [][last'.kind = "request_timeout"
     => LET r == last'.req
        IN requests[r].state = "pending"
           => (/\ last'.outcome = "rejected_timeout"
               /\ last'.op = requests[r].type
               /\ requests'[r].state # "pending"
               /\ ~requests'[r].timer
               /\ \A type \in MsgTypes : \A i \in DOMAIN messageHandlers'[type] :
                    messageHandlers'[type][i] # OneShot(r))]_vars

C14_Witness ==
  /\ last.kind = "request_timeout"
  /\ last.outcome = "rejected_timeout"
  /\ last.op \in MsgTypes
  /\ requests[last.req] = Free

\* C15: a request has at most one outcome.  A timeout is armed only while its
\* request is pending (after the reply the timeout cannot fire); a request
\* never goes from rejected to resolved or back; a request that its timeout
\* rejected has no handler in the table, and no frame invokes the handler of
\* a request that its timeout had rejected.
C15_OneOutcome ==
  /\ [](\A r \in DOMAIN requests :
         /\ requests[r].timer => requests[r].state = "pending"
         /\ requests[r].rejectedBy = "timeout"
              => \A type \in MsgTypes : ~Registered(Cur, type, OneShot(r)))
  /\ [][\A r \in DOMAIN requests :
         /\ requests[r].state = "rejected" => requests'[r].state # "resolved"
         /\ requests[r].state = "resolved" => requests'[r].state # "rejected"
         /\ (last'.kind = "message" /\ \E i \in DOMAIN last'.invoked : last'.invoked[i] = OneShot(r))
              => requests[r].rejectedBy # "timeout"]_vars

C15_Witness ==
  /\ last.kind = "message"
  /\ last.resolved # <<>>
  /\ \A r \in DOMAIN requests : ~requests[r].timer

EarliestPending(type) ==
  LET idx == {i \in DOMAIN messageHandlers[type] :
                /\ messageHandlers[type][i].once
                /\ requests[messageHandlers[type][i].id].state = "pending"}
  IN messageHandlers[type][CHOOSE i \in idx : \A j \in idx : i <= j].id

CanTransmit == isConnected /\ socket # 0 /\ sockets[socket].readyState = "OPEN"

\* C18: send(message) transmits one frame and resolves if the service is
\* Connected, the current transport is open and the message serialises;
\* otherwise it rejects, emits one send_error error event and transmits
\* nothing.  No operation transmits unless Connected with an open transport.
C18_SendOnlyWhenOpen ==
  /\ last.kind = "send"
       => IF CanTransmit /\ last.op = "serialisable"
          THEN last.sent = 1 /\ last.outcome = "resolved" /\ last.events = <<>>
          ELSE /\ last.sent = 0
               /\ last.outcome = "rejected"
               /\ last.events = <<"error_send_error">>
  /\ last.sent > 0 => CanTransmit

C18_Witness ==
  /\ last.kind = "send"
  /\ last.op = "serialisable"
  /\ isConnected
  /\ socket # 0
  /\ sockets[socket].readyState = "CLOSING"
  /\ last.outcome = "rejected"

\* the listener invocations the events of a step call for: for each event, in
\* the order triggered, every listener registered for it, in registration order
RECURSIVE Deliveries(_)
Deliveries(events) ==
  IF events = <<>>
  THEN <<>>
  ELSE [i \in DOMAIN eventListeners[EventName(Head(events))] |->
          <<EventName(Head(events)), eventListeners[EventName(Head(events))][i]>>]
       \o Deliveries(Tail(events))

\* C19: for every event a step triggers, every listener registered for the
\* event is invoked, in registration order, also after a listener that throws,
\* and no exception reaches the code that triggered the event.
C19_ListenerIsolation == last.delivered = Deliveries(last.events) /\ ~last.uncaught

C19_Witness ==
  \E i \in 1..(Len(last.delivered) - 1) :
    /\ Throws(last.delivered[i][2])
    /\ last.delivered[i + 1][1] = last.delivered[i][1]
    /\ ~Throws(last.delivered[i + 1][2])

C21_UndecodableFrame ==
  [][(last'.kind = "message" /\ last'.outcome = "not_json")
     => (/\ last'.events = <<"error_parse_error">>
         /\ last'.invoked = <<>>
         /\ last'.resolved = <<>>
         /\ UNCHANGED <<socket, isConnected, sockets, messageHandlers, requests,
                        reconnectTimeout, pendingReconnect, connectionAttempts>>)]_vars

C21_Witness ==
  /\ last.kind = "message"
  /\ last.outcome = "not_json"
  /\ Len(messageHandlers["client_list"]) >= 2
  /\ Cardinality(Pending("client_list")) >= 2

\* C22: every request that is pending eventually settles; a disconnect()
\* call, a connect() call and the close of the transport leave the pending
\* requests, their timeouts and their handlers as they are.
C22_RequestsSettle ==
  /\ \A r \in 1..Max(MaxRequests, MaxPending) :
       (requests[r].state = "pending") ~> (requests[r].state # "pending")
  /\ [][last'.kind \in {"call_disconnect", "call_connect", "close"}
        => (requests' = requests /\ messageHandlers' = messageHandlers)]_vars

C22_Witness ==
  /\ last.kind = "call_disconnect"
  /\ socket = 0
  /\ \E r \in DOMAIN requests : requests[r].state = "pending" /\ requests[r].timer

InvalidArguments(op, arg) ==
  \/ op = "updateDisplay" /\ arg[1] \in {"not_array", "empty_array"}
  \/ op = "updateDisplay" /\ arg[2] \in {"null", "not_object"}
  \/ op \in {"savePreset", "loadPreset"} /\ arg[1] \in {"empty_string", "not_string"}

\* C23: a request whose arguments are invalid rejects at once; it registers no
\* handler, arms no timer, sends no frame and emits no event.
C23_InvalidArguments ==
  [][(last'.kind = "request" /\ InvalidArguments(last'.op, last'.arg))
     => (/\ last'.outcome = "invalid_argument"
         /\ last'.sent = 0
         /\ last'.events = <<>>
         /\ UNCHANGED <<messageHandlers, requests, sockets, socket, isConnected>>)]_vars

C23_Witness ==
  /\ last.kind = "request" /\ InvalidArguments(last.op, last.arg)
  /\ CanTransmit
  /\ \E r \in DOMAIN requests : requests[r].state = "pending" /\ requests[r].op = last.op

\* C24: when disconnect() returns, the socket handle is null, the service is
\* not connected and no reconnection timer is pending; when close() threw,
\* one disconnect_error error event was emitted and the same holds.
C24_TeardownCompletes ==
  last.kind = "call_disconnect"
    => /\ socket = 0
       /\ ~isConnected
       /\ reconnectTimeout = 0
       /\ pendingReconnect = {}
       /\ last.events = IF last.errored THEN <<"error_disconnect_error">> ELSE <<>>

\* C25: after an explicit disconnect() the attempt counter is 0 and the
\* backoff delay is the initial delay of 1000 ms.
C25_DisconnectResets ==
  last.kind = "call_disconnect"
    => connectionAttempts = 0 /\ reconnectDelay = Ms(INITIAL_RECONNECT_DELAY)

\* C26: the connection timeout of a connect attempt closes no transport but
\* its own and does not clear the socket handle of a newer attempt.
C26_TimeoutOfSupersededAttempt ==
  [][last'.kind = "timeout"
     => (/\ \A s \in DOMAIN sockets :
              s # last'.sock => sockets'[s].readyState = sockets[s].readyState
         /\ socket # last'.sock => socket' = socket)]_vars

\* C27: isConnected is true exactly when the current transport has delivered
\* its open event and has not closed since.
C27_StatusConsistency ==
  isConnected <=> (socket # 0 /\ sockets[socket].wasOpen /\ sockets[socket].readyState # "CLOSED")

\* C28: an unclean close of a transport whose connect call did not set
\* noReconnect, with the attempt counter below the ceiling, leaves exactly one
\* reconnection timer pending, the one it scheduled; the timer, when it fires,
\* emits a reconnect event first and calls connect with the URL of the caller's
\* last valid connect call, which creates a new transport.
C28_UncleanCloseReconnects ==
  [][/\ (/\ last'.kind = "close"
         /\ last'.code # NORMAL_CLOSURE
         /\ ~last'.noReconnect
         /\ connectionAttempts < MAX_RECONNECT_ATTEMPTS)
        => (/\ last'.scheduled
            /\ pendingReconnect' = {last'.sock}
            /\ reconnectTimeout' = last'.sock)
     /\ last'.kind = "reconnect"
        => (/\ last'.events = <<"reconnect">>
            /\ last'.arg = requestedUrl
            /\ url' = requestedUrl
            /\ Len(sockets') = Len(sockets) + 1
            /\ socket' = Len(sockets')
            /\ sockets'[socket'].readyState = "CONNECTING")]_vars

C28_Witness ==
  /\ last.kind = "reconnect"
  /\ ~last.stale
  /\ last.arg = WssB
  /\ calls = MaxCalls

\* C29: when every attempt after an unclean close fails, the caller makes no
\* further call and the ceiling is not waived, the service eventually has no
\* reconnection timer pending and has emitted the max_reconnect_attempts error.
C29_LoopTerminates ==
  (last.kind = "close" /\ last.code # NORMAL_CLOSURE)
    ~> (pendingReconnect = {} /\ MaxErrors >= 1)

C29_Witness ==
  /\ last.kind = "close"
  /\ last.code # NORMAL_CLOSURE
  /\ last.events = <<"disconnect", "error_max_reconnect_attempts">>
  /\ pendingReconnect = {}
  /\ Len(sockets) = MAX_RECONNECT_ATTEMPTS + 1

\* C30: when a transport opens, the service is connected, the attempt counter
\* is 0, the backoff delay is 1000 ms, one connect event is emitted and the
\* connect call is resolved; the connection timeout of a transport that has
\* opened is not armed, so it never fires.
C30_OpenBeforeTimeout ==
  /\ last.kind = "open"
       => /\ isConnected
          /\ connectionAttempts = 0
          /\ reconnectDelay = Ms(INITIAL_RECONNECT_DELAY)
          /\ last.events = <<"connect">>
          /\ last.promise = "resolved"
          /\ sockets[last.sock].readyState = "OPEN"
  /\ \A s \in DOMAIN sockets : sockets[s].wasOpen => ~sockets[s].timeoutArmed
  /\ last.kind = "timeout" => ~last.wasOpen

C30_Witness ==
  /\ last.kind = "open"
  /\ last.sock >= 3
  /\ sockets[last.sock].viaTimer

\* C31: when the connection timeout of the current attempt fires while its
\* transport is still connecting, the transport is closed, the socket handle
\* is cleared, one timeout error event is emitted, the connect call is
\* rejected and the service is not connected.
C31_TimeoutAbortsAttempt ==
  [][(/\ last'.kind = "timeout"
      /\ socket = last'.sock
      /\ sockets[socket].readyState = "CONNECTING")
     => (/\ sockets'[last'.sock].readyState = "CLOSING"
         /\ socket' = 0
         /\ last'.events = <<"error_timeout">>
         /\ sockets[last'.sock].promise = "pending"
         /\ last'.promise = "rejected"
         /\ ~isConnected')]_vars

C31_Witness ==
  /\ last.kind = "timeout"
  /\ last.promise = "rejected"
  /\ sockets[last.sock].readyState = "CLOSING"
  /\ sockets[last.sock].viaTimer
  /\ socket = 0

\* C32: at most one reconnection timer is pending, the one reconnectTimeout
\* holds; a close that schedules a timer leaves only that timer pending, and a
\* timer that has fired is no longer pending.
C32_OneReconnectTimer ==
  /\ Cardinality(pendingReconnect) <= 1
  /\ pendingReconnect \subseteq {reconnectTimeout}
  /\ last.scheduled => pendingReconnect = {last.sock}
  /\ last.kind = "reconnect" => last.sock \notin pendingReconnect

C32_Witness ==
  /\ last.kind = "close"
  /\ last.scheduled
  /\ last.cleared # 0
  /\ last.cleared # last.sock

\* the caller's handlers that throw
Thrower(h) == ~h.once /\ Throws(h.id)

\* C33: when a handler registered for a frame's type throws, a handler_error
\* error event is emitted for it, every handler registered after it for that
\* type is invoked for the same frame, and the connection status and the
\* transport are as before.
C33_HandlerIsolation ==
  [][(last'.kind = "message" /\ last'.outcome = "decoded")
     => (/\ \A i \in DOMAIN last'.snapshot :
              (Thrower(last'.snapshot[i]) /\ i \in DOMAIN last'.invoked)
                => \A j \in (i + 1)..Len(last'.snapshot) :
                     \E k \in DOMAIN last'.invoked : last'.invoked[k] = last'.snapshot[j]
         /\ Count(last'.events, "error_handler_error")
              = Cardinality({k \in DOMAIN last'.invoked : Thrower(last'.invoked[k])})
         /\ UNCHANGED <<socket, isConnected, sockets>>)]_vars

\* what a step about reply type T leaves alone: the handlers registered for
\* every other type and the pending requests awaiting another type
OtherTypesUntouched(T) ==
  /\ \A type \in MsgTypes \ {T} : messageHandlers'[type] = messageHandlers[type]
  /\ \A r \in DOMAIN requests :
       (requests[r].state = "pending" /\ requests[r].type # T) => requests'[r] = requests[r]

\* C34: a frame of type T, and the timeout or the send failure of a request
\* awaiting T, settle no pending request awaiting another type and add or
\* remove no handler registered for another type.
C34_TypesIndependent ==
  [][/\ last'.kind = "message" => OtherTypesUntouched(last'.op)
     /\ last'.kind = "request_timeout" => OtherTypesUntouched(requests[last'.req].type)
     /\ (last'.kind = "request" /\ last'.outcome = "send_failed")
          => OtherTypesUntouched(ReplyType(last'.op))]_vars

C34_Witness ==
  /\ last.kind = "message"
  /\ last.op = "client_list"
  /\ last.resolved # <<>>
  /\ \E r \in DOMAIN requests :
       /\ requests[r].state = "pending"
       /\ requests[r].type = "preset_list"
       /\ Registered(Cur, "preset_list", OneShot(r))

\* C35: a connect() call rejected for an invalid URL leaves the connection as
\* it was: the current transport, the status and the pending reconnection
\* timer are unchanged.
C35_InvalidUrlLeavesConnection ==
  [][(last'.kind = "call_connect" /\ ~ValidUrl(last'.arg))
     => UNCHANGED <<socket, isConnected, sockets, pendingReconnect, reconnectTimeout>>]_vars

\* C36: when an event is triggered, every listener registered for it at that
\* moment is invoked exactly once, in registration order, also when a
\* listener removes itself during the dispatch.  Stated for the steps that
\* trigger one event: the invocations are the listeners registered before
\* the step.
C36_DispatchToAllRegistered ==
  [][Len(last'.events) = 1 => last'.delivered = Deliveries(last'.events)]_vars

\* C37: the backoff delay is between 1000 ms and 30000 ms; it changes only by
\* multiplication by 1.5, capped at 30000 ms, when a reconnection attempt is
\* rejected, and by reset to 1000 ms when a transport opens.
C37_DelayRange ==
  [][/\ reconnectDelay' >= Ms(INITIAL_RECONNECT_DELAY)
     /\ reconnectDelay' <= Ms(MAX_RECONNECT_DELAY)
     /\ reconnectDelay' # reconnectDelay
          => \/ last'.kind = "open" /\ reconnectDelay' = Ms(INITIAL_RECONNECT_DELAY)
             \/ /\ last'.promise = "rejected"
                /\ sockets[last'.sock].viaTimer
                /\ sockets[last'.sock].promise = "pending"
                /\ reconnectDelay' = Min((reconnectDelay * 3) \div 2, Ms(MAX_RECONNECT_DELAY))]_vars

C37_Witness ==
  /\ last.promise = "rejected"
  /\ reconnectDelay = Ms(MAX_RECONNECT_DELAY)

\* C38: the disconnect event of a transport that had opened is never emitted
\* after the connect event of a transport created later, so that between two
\* connect events there is a disconnect event.
C38_LifecycleOrder ==
  (last.kind = "close" /\ last.wasOpen /\ Count(last.events, "disconnect") > 0)
    => \A s \in DOMAIN sockets : s > last.sock => ~sockets[s].wasOpen

\* what C39 names of an instance: status, socket handle, attempt counter,
\* backoff delay, timers, handler table and listener lists
Owned(m) ==
  <<m.isConnected, m.socket, m.connectionAttempts, m.reconnectDelay, m.reconnectTimeout,
    m.pendingReconnect, m.sockets, m.requests, m.messageHandlers, m.eventListeners>>

HandlersOf(q) == {q[i] : i \in DOMAIN q}

\* C39: every step is a step of one instance and leaves what the other
\* instance owns unchanged; the handlers a frame is dispatched to are handlers
\* of the instance that received it.
C39_InstancesIndependent ==
  [][/\ peer' # peer => Owned(Cur)' = Owned(Cur)
     /\ service' # service => Owned(peer)' = Owned(peer)
     /\ (last' # last /\ last'.kind = "message")
          => HandlersOf(last'.invoked) \subseteq HandlersOf(messageHandlers["client_list"])
     /\ (peer'.last # peer.last /\ peer'.last.kind = "message")
          => HandlersOf(peer'.last.invoked) \subseteq HandlersOf(peer.messageHandlers["client_list"])]_vars

C39_Witness ==
  /\ isConnected
  /\ ~peer.isConnected
  /\ peer.sockets # <<>>
  /\ peer.last.kind = "close"
  /\ Len(messageHandlers["client_list"]) = 1
  /\ Len(peer.messageHandlers["client_list"]) = 2
  /\ peer.eventListeners["error"] # <<>>

====
